---- MODULE Spec2Model ----
(***************************************************************************)
(* regexp_extract: a DataFusion scalar UDF (src/src/lib.rs).               *)
(*                                                                         *)
(* One invocation of the UDF closure binds its three positional arguments  *)
(* into a RegexpExtractRequest (set "input", set "regex", set "group") and *)
(* then runs RegexpExtractRequest::fulfill, which compiles the pattern     *)
(* with regex::Regex::new and maps single_regex_extract over the rows.     *)
(*                                                                         *)
(* Text is a sequence of one-character strings; a pattern is a sequence of *)
(* tokens of the regex crate's syntax.  Regex::new and Regex::captures are *)
(* modelled by a parser and a leftmost-first (priority ordered) matcher    *)
(* for the sub-language                                                    *)
(*     alt  ::= cat ("|" cat)*          cat ::= rep*                       *)
(*     rep  ::= atom ("?" | "*" | "+")? atom ::= char | "\d" | "[a-z]"     *)
(*                                             | "(" alt ")"               *)
(* with an optional leading "(?i)" flag.  The patterns the model feeds it  *)
(* (Patterns) stack no quantifiers, so lazy operators never arise.         *)
(***************************************************************************)
EXTENDS Integers, Sequences, FiniteSets, TLC

(***************************************************************************)
(* Option<T>                                                               *)
(***************************************************************************)
None == [some |-> FALSE]

Some(x) == [some |-> TRUE, v |-> x]

\* Option::unwrap_or_default for Option<&str>: the empty text for None.
unwrap_or_default(o) == IF o.some THEN o.v ELSE << >>

(***************************************************************************)
(* Characters                                                              *)
(***************************************************************************)
Lower == {"a", "b"}

Upper == {"A", "B"}

Digit == {"1", "2"}

\* Simple case folding, as (?i) applies it to the characters of the model.
Fold(ch) == CASE ch = "A" -> "a" [] ch = "B" -> "b" [] OTHER -> ch

Quantifiers == {"?", "*", "+"}

AtomTokens == Lower \cup Upper \cup Digit \cup {"\\d", "[a-z]"}

\* Whether pattern token tok (a literal or a class) matches character ch.
CharMatches(tok, ch, ci) ==
    CASE tok = "\\d"    -> ch \in Digit
      [] tok = "[a-z]"  -> ch \in Lower \/ (ci /\ ch \in Upper)
      [] OTHER          -> ch = tok \/ (ci /\ Fold(ch) = Fold(tok))

(***************************************************************************)
(* With(x, Op) is Op(x) with x evaluated once, before Op is applied: the   *)
(* `let v = x;` of the source, where v is then used several times.         *)
(***************************************************************************)
With(x, Op(_)) == CHOOSE r \in {Op(v) : v \in {x}} : TRUE

(***************************************************************************)
(* Regex::new: the parser.  A parse result is                              *)
(*   [ok, ast, pos, n]: success, the tree, the next token, groups so far.  *)
(***************************************************************************)
ParseFail == [ok |-> FALSE, ast |-> [k |-> "empty"], pos |-> 0, n |-> 0]

Quantified(q, sub) ==
    CASE q = "?" -> [k |-> "opt", sub |-> sub]
      [] q = "*" -> [k |-> "star", sub |-> sub]
      [] q = "+" -> [k |-> "cat", l |-> sub, r |-> [k |-> "star", sub |-> sub]]

RECURSIVE ParseAlt(_, _, _)
RECURSIVE ParseCat(_, _, _)

\* atom: a character, a class, or a capture group numbered by its "(".
ParseAtom(p, i, n) ==
    IF i > Len(p) THEN ParseFail
    ELSE IF p[i] = "(" THEN
        With(ParseAlt(p, i + 1, n + 1), LAMBDA r :
            IF r.ok /\ r.pos <= Len(p) /\ p[r.pos] = ")"
            THEN [ok |-> TRUE, ast |-> [k |-> "group", idx |-> n + 1, sub |-> r.ast],
                  pos |-> r.pos + 1, n |-> r.n]
            ELSE ParseFail)
    ELSE IF p[i] \in AtomTokens THEN
        [ok |-> TRUE, ast |-> [k |-> "char", tok |-> p[i]], pos |-> i + 1, n |-> n]
    ELSE ParseFail

\* rep: an atom and at most one repetition operator.
ParseRep(p, i, n) ==
    With(ParseAtom(p, i, n), LAMBDA a :
        IF a.ok /\ a.pos <= Len(p) /\ p[a.pos] \in Quantifiers
        THEN [a EXCEPT !.ast = Quantified(p[a.pos], a.ast), !.pos = a.pos + 1]
        ELSE a)

\* cat: reps up to the end, a ")" or a "|"; the empty concatenation is legal.
ParseCat(p, i, n) ==
    IF i > Len(p) \/ p[i] \in {")", "|"}
    THEN [ok |-> TRUE, ast |-> [k |-> "empty"], pos |-> i, n |-> n]
    ELSE With(ParseRep(p, i, n), LAMBDA h :
            IF ~h.ok THEN ParseFail
            ELSE With(ParseCat(p, h.pos, h.n), LAMBDA t :
                    IF ~t.ok THEN ParseFail
                    ELSE [t EXCEPT !.ast = [k |-> "cat", l |-> h.ast, r |-> t.ast]]))

ParseAlt(p, i, n) ==
    With(ParseCat(p, i, n), LAMBDA c :
        IF c.ok /\ c.pos <= Len(p) /\ p[c.pos] = "|"
        THEN With(ParseAlt(p, c.pos + 1, c.n), LAMBDA r :
                IF ~r.ok THEN ParseFail
                ELSE [r EXCEPT !.ast = [k |-> "alt", l |-> c.ast, r |-> r.ast]])
        ELSE c)

\* Regex::new(pattern): Ok(compiled) or Err.  A pattern compiles iff the whole
\* token sequence parses: an unclosed "(", a stray ")" and a repetition
\* operator with nothing to repeat are errors.
RegexNew(pattern) ==
    LET ci   == Len(pattern) > 0 /\ pattern[1] = "(?i)"
        body == IF ci THEN Tail(pattern) ELSE pattern
    IN  With(ParseAlt(body, 1, 0), LAMBDA r :
            IF r.ok /\ r.pos = Len(body) + 1
            THEN [ok |-> TRUE, ast |-> r.ast, ngroups |-> r.n, ci |-> ci]
            ELSE [ok |-> FALSE])

(***************************************************************************)
(* Regex::captures: the matcher.  Run(ast, t, pos, caps, ci) is the        *)
(* sequence, in priority order, of the [pos, caps] outcomes of matching    *)
(* ast against text t from position pos; caps[g] is None or Some of the    *)
(* span <<from, to>> (text[from .. to-1]) group g captured last.           *)
(***************************************************************************)
RECURSIVE Run(_, _, _, _, _)
RECURSIVE RunEach(_, _, _, _, _, _)

\* Continue with ast from each of the outcomes outs[j], outs[j+1], ..., keeping
\* the priority order; an outcome at or before position `after` is dropped.
RunEach(ast, t, outs, j, ci, after) ==
    IF j > Len(outs) THEN << >>
    ELSE (IF outs[j].pos > after THEN Run(ast, t, outs[j].pos, outs[j].caps, ci) ELSE << >>)
             \o RunEach(ast, t, outs, j + 1, ci, after)

Run(ast, t, pos, caps, ci) ==
    CASE ast.k = "empty" -> << [pos |-> pos, caps |-> caps] >>
      [] ast.k = "char"  ->
            IF pos <= Len(t) /\ CharMatches(ast.tok, t[pos], ci)
            THEN << [pos |-> pos + 1, caps |-> caps] >>
            ELSE << >>
      [] ast.k = "cat"   ->
            With(Run(ast.l, t, pos, caps, ci), LAMBDA outs :
                RunEach(ast.r, t, outs, 1, ci, -1))
      [] ast.k = "alt"   -> Run(ast.l, t, pos, caps, ci) \o Run(ast.r, t, pos, caps, ci)
      [] ast.k = "opt"   -> Run(ast.sub, t, pos, caps, ci) \o << [pos |-> pos, caps |-> caps] >>
      [] ast.k = "star"  ->
            \* greedy: one more iteration that consumes text, else stop here
            With(Run(ast.sub, t, pos, caps, ci), LAMBDA outs :
                RunEach(ast, t, outs, 1, ci, pos) \o << [pos |-> pos, caps |-> caps] >>)
      [] ast.k = "group" ->
            With(Run(ast.sub, t, pos, caps, ci), LAMBDA inner :
                [j \in 1..Len(inner) |->
                    [pos  |-> inner[j].pos,
                     caps |-> [inner[j].caps EXCEPT ![ast.idx] = Some(<<pos, inner[j].pos>>)]]])

RECURSIVE CapturesFrom(_, _, _)
\* The leftmost start at which the pattern matches, and there the first
\* outcome in priority order.  Group 0 is the whole match.
CapturesFrom(re, t, start) ==
    IF start > Len(t) + 1 THEN None
    ELSE With(Run(re.ast, t, start, [g \in 1..re.ngroups |-> None], re.ci), LAMBDA outs :
            IF outs # << >>
            THEN Some([g \in 0..re.ngroups |->
                         IF g = 0 THEN Some(<<start, outs[1].pos>>) ELSE outs[1].caps[g]])
            ELSE CapturesFrom(re, t, start + 1))

\* Regex::captures(text): None when the text has no match.
captures(re, t) == CapturesFrom(re, t, 1)

(***************************************************************************)
(* ColumnarValue: the runtime shapes an argument can have.                 *)
(***************************************************************************)
ArrayUtf8(rows) == [cv |-> "Array", dt |-> "Utf8", rows |-> rows]

ArrayInt64(ints) == [cv |-> "Array", dt |-> "Int64", ints |-> ints]

ScalarUtf8(o) == [cv |-> "Scalar", dt |-> "Utf8", str |-> o]

ScalarInt64(o) == [cv |-> "Scalar", dt |-> "Int64", int |-> o]

(***************************************************************************)
(* RegexpExtractRequest                                                    *)
(***************************************************************************)
\* set, were a NULL scalar to leave its field unset instead of being refused.
set_null_unsets(self, field, value) ==
    CASE value.cv = "Array" /\ field = "input" ->
            [req |-> [self EXCEPT !.input =
                          IF value.dt = "Utf8" THEN Some(value.rows) ELSE None],
             err |-> None]
      [] value.cv = "Scalar" /\ value.dt = "Utf8" /\ field = "regex" ->
            [req |-> [self EXCEPT !.regex = value.str], err |-> None]
      [] value.cv = "Scalar" /\ value.dt = "Int64" /\ field = "group" ->
            [req |-> [self EXCEPT !.group = value.int], err |-> None]
      [] OTHER ->
            [req |-> self, err |-> Some(field)]

\* RegexpExtractRequest::new(): every field unset.
new == [input |-> None, regex |-> None, group |-> None]

\* RegexpExtractRequest::set(field, value): the request after the call and
\* the Result, None for Ok(()) and Some(field) for the Execution error
\* "Wrong columnar value type expected <field> got ...".
\* An array bound as "input" is downcast to StringArray: the downcast of an
\* array of another element type is None, which is stored, and set is Ok.
set(self, field, value) ==
    CASE value.cv = "Array" /\ field = "input" ->
            [req |-> [self EXCEPT !.input =
                          IF value.dt = "Utf8" THEN Some(value.rows) ELSE None],
             err |-> None]
      [] value.cv = "Scalar" /\ value.dt = "Utf8" /\ value.str.some /\ field = "regex" ->
            [req |-> [self EXCEPT !.regex = Some(value.str.v)], err |-> None]
      [] value.cv = "Scalar" /\ value.dt = "Int64" /\ value.int.some /\ field = "group" ->
            [req |-> [self EXCEPT !.group = Some(value.int.v)], err |-> None]
      [] OTHER ->
            [req |-> self, err |-> Some(field)]

\* RegexpExtractRequest::is_usable
is_usable(self) == self.input.some /\ self.regex.some /\ self.group.some

(***************************************************************************)
(* i64 -> usize                                                            *)
(***************************************************************************)
\* The limbs of a 64-bit word are 16 bits wide: 2^64 itself is beyond the
\* integers of the model checker.
LimbBase == 65536

\* as_usize, were it i64::unsigned_abs.
as_usize_abs(i) ==
    LET a == IF i < 0 THEN -i ELSE i
    IN  << a % LimbBase, (a \div LimbBase) % LimbBase, 0, 0 >>

\* ArrowNativeType::as_usize for i64 is `self as usize`: the value modulo
\* 2^64, here as its four 16-bit limbs, least significant first.
as_usize(i) ==
    LET d1 == i \div LimbBase
        d2 == d1 \div LimbBase
        d3 == d2 \div LimbBase
    IN  << i % LimbBase, d1 % LimbBase, d2 % LimbBase, d3 % LimbBase >>

\* Captures::get, were it to index the groups from 1.
cap_get_from_one(cap, u) ==
    IF u[2] = 0 /\ u[3] = 0 /\ u[4] = 0 /\ (u[1] + 1) \in DOMAIN cap
    THEN cap[u[1] + 1]
    ELSE None

\* Captures::get, were a declared group that did not participate to yield
\* the whole match.
cap_get_or_whole(cap, u) ==
    IF u[2] = 0 /\ u[3] = 0 /\ u[4] = 0 /\ u[1] \in DOMAIN cap
    THEN (IF cap[u[1]].some THEN cap[u[1]] ELSE cap[0])
    ELSE None

\* Captures::get(i): the span of group i; None when the pattern has no
\* group i (i >= the number of groups, group 0 included) or when group i
\* did not participate in the match.
cap_get(cap, u) ==
    IF u[2] = 0 /\ u[3] = 0 /\ u[4] = 0 /\ u[1] \in DOMAIN cap
    THEN cap[u[1]]
    ELSE None

\* Match::as_str: the matched text of a span.
as_str(t, span) == SubSeq(t, span[1], span[2] - 1)

\* single_regex_extract(input_str, regex, group):
\*   regex.captures(input_str).and_then(|cap| cap.get(group))
\*        .map(|m| m.as_str().to_string()).unwrap_or_default()
single_regex_extract(input_str, regex, group) ==
    With(captures(regex, input_str), LAMBDA cap :
        With(IF cap.some THEN cap_get(cap.v, group) ELSE None, LAMBDA m :
            IF m.some THEN as_str(input_str, m.v) ELSE << >>))

\* The row closure, were it to propagate an absent row.
extract_row_keeps_null(s, regexp, group_idx) ==
    IF s.some THEN Some(single_regex_extract(s.v, regexp, group_idx)) ELSE None

\* The closure fulfill maps over the rows: an absent row is read as the empty
\* text, and every output is present.
extract_row(s, regexp, group_idx) ==
    Some(single_regex_extract(unwrap_or_default(s), regexp, group_idx))

\* StringArray::from(vec![""]): the fallback batch, one present empty text.
empty == << Some(<< >>) >>

\* fulfill, were the captures taken once, from the first row, outside the map.
fulfill_hoisted(self) ==
    IF is_usable(self)
    THEN LET input     == self.input.v
             group_idx == as_usize(self.group.v)
         IN  With(RegexNew(self.regex.v), LAMBDA regexp :
                IF regexp.ok
                THEN [batch    |-> [i \in 1..Len(input) |->
                                      extract_row(input[1], regexp, group_idx)],
                      compiled |-> 1,
                      scanned  |-> Len(input)]
                ELSE [batch |-> empty, compiled |-> 1, scanned |-> 0])
    ELSE [batch |-> empty, compiled |-> 0, scanned |-> 0]

\* fulfill, were Regex::new called inside the map, once per row.
fulfill_recompiles(self) ==
    IF is_usable(self)
    THEN LET input     == self.input.v
             group_idx == as_usize(self.group.v)
         IN  With(RegexNew(self.regex.v), LAMBDA regexp :
                IF regexp.ok
                THEN [batch    |-> [i \in 1..Len(input) |->
                                      extract_row(input[i], regexp, group_idx)],
                      compiled |-> Len(input),
                      scanned  |-> Len(input)]
                ELSE [batch |-> empty, compiled |-> Len(input), scanned |-> 0])
    ELSE [batch |-> empty, compiled |-> 0, scanned |-> 0]

\* RegexpExtractRequest::fulfill: the result batch, with the number of
\* Regex::new calls and of single_regex_extract calls it made.
fulfill(self) ==
    IF is_usable(self)
    THEN LET input     == self.input.v
             group_idx == as_usize(self.group.v)
         IN  With(RegexNew(self.regex.v), LAMBDA regexp :
                IF regexp.ok
                THEN [batch    |-> [i \in 1..Len(input) |->
                                      extract_row(input[i], regexp, group_idx)],
                      compiled |-> 1,
                      scanned  |-> Len(input)]
                ELSE [batch |-> empty, compiled |-> 1, scanned |-> 0])
    ELSE [batch |-> empty, compiled |-> 0, scanned |-> 0]

(***************************************************************************)
(* The arguments the host may call the UDF with                            *)
(***************************************************************************)
MaxRows == 2

Texts ==
    { << >>,
      <<"a", "b">>,
      <<"A", "1">>,
      <<"a", "1", "b", "2">>,
      <<"1", "a", "b", "1", "2">> }

Rows == {None} \cup {Some(t) : t \in Texts}

Batches == UNION {[1..n -> Rows] : n \in 0..MaxRows}

Patterns ==
    { <<"(", "[a-z]", "+", ")", "(", "\\d", "+", ")">>,
      <<"(", "\\d", "+", ")">>,
      <<"(", "[a-z]", ")", "?", "\\d">>,
      <<"(", "a", ")", "|", "(", "\\d", ")">>,
      <<"a", "|", "a", "1">>,
      <<"\\d", "*">>,
      <<"(?i)", "a", "(", "\\d", "+", ")">>,
      <<"(", "[a-z]", "+", "(", "\\d", "+">>,
      <<"+", "a">> }

Groups == {-65537, -1, 0, 1, 2, 3}

InputArgs ==
    {ArrayUtf8(b) : b \in Batches}
        \cup {ArrayInt64(<<Some(1), None>>), ScalarUtf8(Some(<<"a", "1">>)), ScalarUtf8(None)}

RegexArgs ==
    {ScalarUtf8(Some(p)) : p \in Patterns}
        \cup {ScalarUtf8(None), ScalarInt64(Some(1)), ArrayUtf8(<<Some(<<"a">>)>>)}

GroupArgs ==
    {ScalarInt64(Some(g)) : g \in Groups}
        \cup {ScalarInt64(None), ScalarUtf8(Some(<<"1">>)), ArrayInt64(<<Some(1)>>)}

(***************************************************************************)
(* The state: one UDF closure, called by the host again and again          *)
(***************************************************************************)
VARIABLES
    pc,        \* "idle", "set_input", "set_regex", "set_group", "fulfill", "returned"
    args,      \* the three positional arguments of the invocation
    request,   \* the RegexpExtractRequest of the invocation
    ret,       \* what the invocation returned: Ok(batch) or Err(field)
    prev,      \* the arguments and the return value of the invocation before,
               \* when the host repeated or rephrased that call
    fulfills,  \* fulfill calls of the invocation
    compiles,  \* Regex::new calls of the invocation
    scans      \* single_regex_extract calls of the invocation

vars == <<pc, args, request, ret, prev, fulfills, compiles, scans>>

NoRet == [kind |-> "none"]

Ok(batch) == [kind |-> "Ok", batch |-> batch]

Err(field) == [kind |-> "Err", field |-> field]

NoArgs == <<ScalarUtf8(None), ScalarUtf8(None), ScalarUtf8(None)>>

NoPrev == [args |-> NoArgs, ret |-> NoRet]

\* The batch with the absent rows at the positions in S made present and empty.
Coalesce(rows, S) == [i \in 1..Len(rows) |-> IF i \in S THEN Some(<< >>) ELSE rows[i]]

NullRows(rows) == {i \in 1..Len(rows) : ~rows[i].some}

Init ==
    /\ pc = "idle"
    /\ args = NoArgs
    /\ request = new
    /\ ret = NoRet
    /\ prev = NoPrev
    /\ fulfills = 0
    /\ compiles = 0
    /\ scans = 0

\* The closure is entered: `let mut request = RegexpExtractRequest::new()`.
Enter(a, before) ==
    /\ pc' = "set_input"
    /\ args' = a
    /\ request' = new
    /\ ret' = NoRet
    /\ prev' = before
    /\ fulfills' = 0
    /\ compiles' = 0
    /\ scans' = 0

\* The host calls the UDF with three arguments of any shape.
Invoke ==
    /\ pc = "idle"
    /\ \E a0 \in InputArgs, a1 \in RegexArgs, a2 \in GroupArgs :
          Enter(<<a0, a1, a2>>, NoPrev)

\* The host evaluates the same call again (the UDF is Volatility::Immutable).
Reinvoke ==
    /\ pc = "returned"
    /\ Enter(args, [args |-> args, ret |-> ret])

\* The host evaluates the call again over the same column with some of its
\* NULLs stored as empty strings.
ReinvokeCoalesced ==
    /\ pc = "returned"
    /\ args[1].cv = "Array" /\ args[1].dt = "Utf8"
    /\ \E S \in (SUBSET NullRows(args[1].rows)) \ {{}} :
          Enter([args EXCEPT ![1] = ArrayUtf8(Coalesce(args[1].rows, S))],
                [args |-> args, ret |-> ret])

\* The host evaluates the call again over a part of the same column: it is
\* free to cut a column into batches as it likes.
ReinvokeSlice ==
    /\ pc = "returned"
    /\ args[1].cv = "Array" /\ args[1].dt = "Utf8"
    /\ \E lo \in 1..Len(args[1].rows) : \E hi \in lo..Len(args[1].rows) :
          /\ hi - lo + 1 < Len(args[1].rows)
          /\ Enter([args EXCEPT ![1] = ArrayUtf8(SubSeq(args[1].rows, lo, hi))],
                   [args |-> args, ret |-> ret])

\* The host is done with the call and its result.
Release ==
    /\ pc = "returned"
    /\ pc' = "idle"
    /\ args' = NoArgs
    /\ request' = new
    /\ ret' = NoRet
    /\ prev' = NoPrev
    /\ fulfills' = 0
    /\ compiles' = 0
    /\ scans' = 0

\* request.set(field, &args[k])?  : on Err the closure returns the error.
Bind(field, k, here, next) ==
    /\ pc = here
    /\ LET r == set(request, field, args[k])
       IN  /\ request' = r.req
           /\ IF r.err.some
              THEN pc' = "returned" /\ ret' = Err(r.err.v)
              ELSE pc' = next /\ ret' = ret
    /\ UNCHANGED <<args, prev, fulfills, compiles, scans>>

SetInput == Bind("input", 1, "set_input", "set_regex")

SetRegex == Bind("regex", 2, "set_regex", "set_group")

SetGroup == Bind("group", 3, "set_group", "fulfill")

\* Ok(ColumnarValue::Array(request.fulfill()))
Fulfill ==
    /\ pc = "fulfill"
    /\ \E f \in {fulfill(request)} :
           /\ ret' = Ok(f.batch)
           /\ compiles' = compiles + f.compiled
           /\ scans' = scans + f.scanned
    /\ fulfills' = fulfills + 1
    /\ pc' = "returned"
    /\ UNCHANGED <<args, request, prev>>

Next == Invoke \/ Reinvoke \/ ReinvokeCoalesced \/ ReinvokeSlice \/ Release \/ SetInput \/ SetRegex \/ SetGroup \/ Fulfill

Spec == Init /\ [][Next]_vars

(***************************************************************************)
(* Vocabulary of the properties.  None of it is used by the actions: it    *)
(* says in its own terms what a shape, a well-formed pattern, a match and  *)
(* a first match are.                                                      *)
(***************************************************************************)
Returned == pc = "returned"

\* The shape the k-th argument's field accepts.
Accepts(k, a) ==
    CASE k = 1 -> a.cv = "Array" /\ a.dt = "Utf8"
      [] k = 2 -> a.cv = "Scalar" /\ a.dt = "Utf8" /\ a.str.some
      [] k = 3 -> a.cv = "Scalar" /\ a.dt = "Int64" /\ a.int.some

FieldName(k) == CASE k = 1 -> "input" [] k = 2 -> "regex" [] k = 3 -> "group"

WellShaped(a) == \A k \in 1..3 : Accepts(k, a[k])

FirstOffender(a) == CHOOSE k \in 1..3 : ~Accepts(k, a[k]) /\ \A h \in 1..(k - 1) : Accepts(h, a[h])

\* The number of rows of an array argument.
ArrayLen(a) == IF a.dt = "Utf8" THEN Len(a.rows) ELSE Len(a.ints)

\* An absent row read as the empty text.
TextOf(row) == IF row.some THEN row.v ELSE << >>

Count(p, tok, upto) == Cardinality({j \in 1..upto : p[j] = tok})

\* The patterns of the sub-language that are syntactically valid: the
\* parentheses balance and every repetition operator follows something to
\* repeat (a character, a class or a closed group).
WellFormed(pattern) ==
    LET p == IF Len(pattern) > 0 /\ pattern[1] = "(?i)" THEN Tail(pattern) ELSE pattern
    IN  /\ \A i \in 1..Len(p) : p[i] \in AtomTokens \cup Quantifiers \cup {"(", ")", "|"}
        /\ \A i \in 1..Len(p) : Count(p, "(", i) >= Count(p, ")", i)
        /\ Count(p, "(", Len(p)) = Count(p, ")", Len(p))
        /\ \A i \in 1..Len(p) :
              p[i] \in Quantifiers => i > 1 /\ p[i - 1] \in AtomTokens \cup {")"}

\* The capture groups a pattern declares.
NumGroups(pattern) == Count(pattern, "(", Len(pattern))

RECURSIVE InLang(_, _, _)
\* Whether the whole of text w is matched by ast: the language of the pattern.
InLang(ast, w, ci) ==
    CASE ast.k = "empty" -> w = << >>
      [] ast.k = "char"  -> Len(w) = 1 /\ CharMatches(ast.tok, w[1], ci)
      [] ast.k = "cat"   -> \E n \in 0..Len(w) :
                                /\ InLang(ast.l, SubSeq(w, 1, n), ci)
                                /\ InLang(ast.r, SubSeq(w, n + 1, Len(w)), ci)
      [] ast.k = "alt"   -> InLang(ast.l, w, ci) \/ InLang(ast.r, w, ci)
      [] ast.k = "opt"   -> w = << >> \/ InLang(ast.sub, w, ci)
      [] ast.k = "star"  -> \/ w = << >>
                            \/ \E n \in 1..Len(w) :
                                  /\ InLang(ast.sub, SubSeq(w, 1, n), ci)
                                  /\ InLang(ast, SubSeq(w, n + 1, Len(w)), ci)
      [] ast.k = "group" -> InLang(ast.sub, w, ci)

\* The pattern matches some text[from .. to-1].
MatchesAt(re, t, from) == \E to \in from..(Len(t) + 1) : InLang(re.ast, SubSeq(t, from, to - 1), re.ci)

HasMatch(re, t) == \E from \in 1..(Len(t) + 1) : MatchesAt(re, t, from)

LeftmostStart(re, t) ==
    CHOOSE from \in 1..(Len(t) + 1) :
        MatchesAt(re, t, from) /\ \A f \in 1..(from - 1) : ~MatchesAt(re, t, f)

\* The invocation bound three well-shaped arguments and its pattern compiles.
NormalPath == Returned /\ WellShaped(args) /\ WellFormed(args[2].str.v)

InputRows == args[1].rows

Pattern == args[2].str.v

Group == args[3].int.v

EmptyText == Some(<< >>)

(***************************************************************************)
(* C1.  Every invocation that returns a result batch returns as many rows  *)
(* as its input text batch has, also when the pattern fails to compile.    *)
(* The code returns the one-row batch `empty` on its fallback paths.       *)
(***************************************************************************)
C1_LengthPreserved ==
    Returned /\ Accepts(1, args[1]) /\ ret.kind = "Ok"
        => Len(ret.batch) = Len(InputRows)

(***************************************************************************)
(* C2.  Every element of every result batch is a present text, possibly    *)
(* empty: on the per-row path, for present and absent input rows, and on   *)
(* both fallback paths.                                                    *)
(***************************************************************************)
C2_NoAbsentOutput ==
    Returned /\ ret.kind = "Ok" => \A i \in 1..Len(ret.batch) : ret.batch[i].some

\* A per-row result over a batch with an absent row and a row that yields text.
C2_Witness ==
    /\ NormalPath
    /\ \E i, j \in 1..Len(InputRows) :
          /\ ~InputRows[i].some
          /\ ret.batch[i] = EmptyText
          /\ InputRows[j].some
          /\ ret.batch[j] # EmptyText

(***************************************************************************)
(* C3.  An argument of a shape its field does not accept makes the call    *)
(* return the binding error naming the first such field, and fulfill is    *)
(* not run.  The code accepts an array of any element type as "input".     *)
(***************************************************************************)
C3_BadShapeRejected ==
    Returned /\ ~WellShaped(args)
        => ret = Err(FieldName(FirstOffender(args))) /\ fulfills = 0

C4_NeverAnError ==
    /\ Returned
    /\ args[1].cv = "Array"
    /\ args[2].cv = "Scalar" /\ args[2].dt = "Utf8"
    /\ args[3].cv = "Scalar" /\ args[3].dt = "Int64"
    => ret.kind = "Ok"

\* What set refuses: an input that is no array, a pattern that is no present
\* text scalar, a group index that is no present integer scalar.
Refused(a) ==
    \/ a[1].cv # "Array"
    \/ ~Accepts(2, a[2])
    \/ ~Accepts(3, a[3])

\* The requested group has no text in the first match of the row's text.
GroupMissing(re, t) ==
    \/ Group < 0
    \/ Group > NumGroups(Pattern)
    \/ ~HasMatch(re, t)
    \/ ~captures(re, t).v[Group].some

(***************************************************************************)
(* C4, amended.  A NULL pattern or group index (like any argument set      *)
(* refuses) makes the call return the binding error; every other          *)
(* degradation returns a result batch and no error: when the request has   *)
(* no text batch (the input array is not a text array) or the pattern is   *)
(* malformed every row of the result is the empty text, and a row that     *)
(* does not match, or whose requested group is out of range or did not     *)
(* participate, is the empty text.                                         *)
(***************************************************************************)
C4_DegradeOrRefuse ==
    Returned =>
        /\ ret.kind = "Err" <=> Refused(args)
        /\ ret.kind = "Ok" /\ (~Accepts(1, args[1]) \/ ~WellFormed(Pattern))
              => \A i \in 1..Len(ret.batch) : ret.batch[i] = EmptyText
        /\ NormalPath =>
              /\ ret.kind = "Ok"
              /\ \A i \in 1..Len(InputRows) :
                    GroupMissing(RegexNew(Pattern), TextOf(InputRows[i]))
                        => ret.batch[i] = EmptyText

\* A malformed pattern over a two-row text batch comes back as a batch.
C4_Witness ==
    /\ Returned /\ WellShaped(args)
    /\ ~WellFormed(Pattern)
    /\ Len(InputRows) = 2
    /\ ret.kind = "Ok"
    /\ compiles = 1

(***************************************************************************)
(* C5.  On the per-row path, group index 0 yields, for every row whose     *)
(* text has a match, the text of the first match: it starts at the         *)
(* leftmost position where the pattern matches, it is a text of the        *)
(* pattern's language (the whole match, not a sub-capture), and it is the  *)
(* slice of the row's text as it stands.                                   *)
(***************************************************************************)
C5_GroupZeroIsFirstMatch ==
    NormalPath /\ Group = 0 =>
        \A i \in 1..Len(InputRows) :
            LET t  == TextOf(InputRows[i])
                re == RegexNew(Pattern)
            IN  HasMatch(re, t) =>
                    LET span == captures(re, t).v[0].v
                    IN  /\ span[1] = LeftmostStart(re, t)
                        /\ InLang(re.ast, SubSeq(t, span[1], span[2] - 1), re.ci)
                        /\ ret.batch[i] = Some(SubSeq(t, span[1], span[2] - 1))

\* "a1b2" under ([a-z]+)(\d+): the first match "a1", neither "b2" nor "a".
C5_Witness ==
    /\ NormalPath /\ Group = 0
    /\ NumGroups(Pattern) = 2
    /\ \E i \in 1..Len(InputRows) :
          /\ InputRows[i] = Some(<<"a", "1", "b", "2">>)
          /\ ret.batch[i] = Some(<<"a", "1">>)

(***************************************************************************)
(* C6.  On the per-row path, for a group index k >= 1 a row's output is    *)
(* the text group k captured in the first match when the row matches, the  *)
(* pattern declares at least k groups and group k participated; otherwise  *)
(* it is the empty text, and the call is no error.                         *)
(***************************************************************************)
C6_GroupK ==
    NormalPath /\ Group >= 1 =>
        /\ ret.kind = "Ok"
        /\ \A i \in 1..Len(InputRows) :
              LET t  == TextOf(InputRows[i])
                  re == RegexNew(Pattern)
                  c  == captures(re, t)
              IN  ret.batch[i] =
                      Some(IF HasMatch(re, t) /\ Group <= NumGroups(Pattern) /\ c.v[Group].some
                           THEN SubSeq(t, c.v[Group].v[1], c.v[Group].v[2] - 1)
                           ELSE << >>)

\* One batch with a row whose group 1 captured text and a row that matches
\* with group 1 left out.
C6_Witness ==
    /\ NormalPath /\ Group = 1
    /\ \E i, j \in 1..Len(InputRows) :
          /\ ret.batch[i] # EmptyText
          /\ ret.batch[j] = EmptyText
          /\ LET c == captures(RegexNew(Pattern), TextOf(InputRows[j]))
             IN  c.some /\ ~c.v[1].some

\* prev is an invocation of the same pattern and group over a text batch b,
\* and args is the same call over b with some absent rows made empty texts.
IsCoalesced(a, b) ==
    /\ a[2] = b[2] /\ a[3] = b[3]
    /\ Accepts(1, a[1]) /\ Accepts(1, b[1])
    /\ Len(a[1].rows) = Len(b[1].rows)
    /\ \A i \in 1..Len(a[1].rows) :
          \/ b[1].rows[i] = a[1].rows[i]
          \/ ~a[1].rows[i].some /\ b[1].rows[i] = EmptyText

(***************************************************************************)
(* C7.  Absent rows behave as empty-text rows: the call over a batch and   *)
(* the call over the same batch with any of its absent rows replaced by    *)
(* present empty texts return the same thing.                              *)
(***************************************************************************)
C7_NullAsEmpty ==
    Returned /\ prev.ret # NoRet /\ IsCoalesced(prev.args, args) => ret = prev.ret

\* Two per-row results, before and after an absent row was made empty, under
\* a pattern that matches the empty text.
C7_Witness ==
    /\ NormalPath
    /\ prev.ret # NoRet /\ prev.args # args /\ IsCoalesced(prev.args, args)
    /\ HasMatch(RegexNew(Pattern), << >>)
    /\ \E i \in 1..Len(InputRows) : ret.batch[i] # EmptyText

C10_NegativeGroup ==
    NormalPath /\ Group < 0 =>
        /\ ret.kind = "Ok"
        /\ Len(ret.batch) = Len(InputRows)
        /\ \A i \in 1..Len(InputRows) : ret.batch[i] = EmptyText

\* Group -1 over a row that group 0 and group 1 would both give text for.
C10_Witness ==
    /\ NormalPath /\ Group = -1
    /\ NumGroups(Pattern) = 2
    /\ \E i \in 1..Len(InputRows) :
          /\ InputRows[i] = Some(<<"a", "1", "b", "2">>)
          /\ ret.batch[i] = EmptyText

====
